---- MODULE Spec2Model ----
(***************************************************************************)
(* Model of RAW_to_TIFF.py: process_path walks a directory (or takes one   *)
(* file), process_raw_file resolves the decode parameters, reinterprets    *)
(* the bytes after the header as a (height, width) grid and saves or shows *)
(* it, and display_image min-max scales a grid for the preview.            *)
(*                                                                         *)
(* A path is a sequence of one-character strings, a file is a sequence of  *)
(* bytes, an image is a record of its element width and its rows.          *)
(***************************************************************************)
EXTENDS Integers, Sequences, FiniteSets

VARIABLES
    path,            \* argument of process_path
    save_tiff,       \* argument of process_path
    display_images,  \* argument of process_path
    tiff_path,       \* argument of process_path
    overrides,       \* the caller's (width, height, pixel_type, header_size)
    width,           \* local of process_path (reassigned by the preview)
    height,          \* local of process_path (reassigned by the preview)
    pixel_type,      \* local of process_path
    header_size,     \* local of process_path (reassigned by the preview)
    listing,         \* os.listdir of the directory, with each entry's content
    outIsDir,        \* whether the path "/out" is an existing directory
    idx,             \* position of the for loop in listing
    pc,              \* "run", "done" or "crashed" (an exception left process_path)
    raised,          \* the exception that left process_path, or "none"
    calls,           \* history: one record per call of process_raw_file
    previews,        \* history: one record per preview decode of process_path
    tiffs,           \* the TIFF files on disk: path -> image
    shown,           \* what was put on screen, in order
    console          \* what was printed, in order

vars == <<path, save_tiff, display_images, tiff_path, overrides, width, height,
          pixel_type, header_size, listing, outIsDir, idx, pc, raised, calls,
          previews, tiffs, shown, console>>

(***************************************************************************)
(* Bounds of the model.                                                    *)
(***************************************************************************)
MaxFiles == 2
MaxPreviewLen == 3
MaxPixel == 4

(***************************************************************************)
(* Strings and paths (posixpath).                                          *)
(***************************************************************************)
None == <<"None">>
NoPath == <<>>
NoImage == [dtype |-> 0, rows |-> <<>>]

Max(S) == CHOOSE x \in S : \A y \in S : y <= x
Min(S) == CHOOSE x \in S : \A y \in S : x <= y

\* str.lower, on the letters the model's names use
lower_char(c) ==
    CASE c = "R" -> "r"
      [] c = "A" -> "a"
      [] c = "W" -> "w"
      [] OTHER -> c

lower(s) == [i \in 1..Len(s) |-> lower_char(s[i])]

endswith(s, suffix) ==
    /\ Len(s) >= Len(suffix)
    /\ SubSeq(s, Len(s) - Len(suffix) + 1, Len(s)) = suffix

\* str.rfind, 1-based; 0 when the character does not occur
rfind(s, c) == Max({0} \cup {i \in 1..Len(s) : s[i] = c})

\* os.path.splitext: the extension starts at the last dot of the last
\* component, leading dots of the component not counted
splitext(p) ==
    LET sepIndex == rfind(p, "/")
        dotIndex == rfind(p, ".")
    IN  IF /\ dotIndex > sepIndex
           /\ \E k \in (sepIndex + 1)..(dotIndex - 1) : p[k] # "."
        THEN <<SubSeq(p, 1, dotIndex - 1), SubSeq(p, dotIndex, Len(p))>>
        ELSE <<p, <<>>>>

basename(p) == SubSeq(p, rfind(p, "/") + 1, Len(p))

join(a, b) ==
    IF Len(b) > 0 /\ b[1] = "/" THEN b
    ELSE IF a = <<>> \/ a[Len(a)] = "/" THEN a \o b
    ELSE a \o <<"/">> \o b

\* truth value of an optional string: None and '' are false
truthy(p) == p # None /\ p # <<>>

TiffExt == <<".", "t", "i", "f", "f">>
RawExt == <<".", "r", "a", "w">>
DirPath == <<"/", "d">>
OutPath == <<"/", "o", "u", "t">>
FileTarget == <<"/", "o", ".", "t", "i", "f", "f">>
NoSuchPath == <<"/", "n", "o", "p", "e">>

(***************************************************************************)
(* Files: little-endian uint16 words and bytes.                            *)
(***************************************************************************)
U16LE(v) == <<v % 256, v \div 256>>

RECURSIVE Flatten(_)
Flatten(ss) == IF ss = <<>> THEN <<>> ELSE Head(ss) \o Flatten(Tail(ss))

\* a file: the 5-word preamble, zero padding up to hs, then the pixels
MkFile(w, h, flag, hs, pix) ==
    U16LE(w) \o U16LE(h) \o U16LE(flag) \o U16LE(0) \o U16LE(hs)
    \o [i \in 1..(IF hs > 10 THEN hs - 10 ELSE 0) |-> 0]
    \o (IF flag = 16 THEN Flatten([i \in 1..Len(pix) |-> U16LE(pix[i])])
        ELSE pix)

\* np.fromfile(file, dtype, count) with the file positioned at offset:
\* the complete elements that are left, at most count of them (-1: all)
fromfile(bytes, offset, dtype, count) ==
    LET size == dtype \div 8
        avail == IF offset >= Len(bytes) THEN 0
                 ELSE (Len(bytes) - offset) \div size
        n == IF count < 0 THEN avail ELSE Min({count, avail})
    IN  [k \in 1..n |->
            IF size = 1 THEN bytes[offset + k]
            ELSE bytes[offset + 2 * k - 1] + 256 * bytes[offset + 2 * k]]

(***************************************************************************)
(* read_raw_parameters, the decode and process_raw_file.                   *)
(***************************************************************************)
\* variant: the header size taken from the reserved fourth value
read_raw_parameters_reserved(bytes) ==
    LET parameters == fromfile(bytes, 0, 16, 5)
    IN  IF Len(parameters) < 5
        THEN [err |-> "IndexError", width |-> 0, height |-> 0,
              data_type |-> 0, header_size |-> 0]
        ELSE [err |-> "none",
              width |-> parameters[1],
              height |-> parameters[2],
              data_type |-> IF parameters[3] = 16 THEN 16 ELSE 8,
              header_size |-> parameters[4]]

\* the first 5 uint16 values; indexing a shorter array raises IndexError
read_raw_parameters(bytes) ==
    LET parameters == fromfile(bytes, 0, 16, 5)
    IN  IF Len(parameters) < 5
        THEN [err |-> "IndexError", width |-> 0, height |-> 0,
              data_type |-> 0, header_size |-> 0]
        ELSE [err |-> "none",
              width |-> parameters[1],
              height |-> parameters[2],
              data_type |-> IF parameters[3] = 16 THEN 16 ELSE 8,
              header_size |-> parameters[5]]

\* variant: each argument that is -1 filled in from the preamble on its own
resolve_parameters_each(bytes, w, h, pt, hs) ==
    IF w = -1 \/ h = -1 \/ pt = -1 \/ hs = -1
    THEN LET p == read_raw_parameters(bytes)
         IN  IF p.err # "none" THEN p
             ELSE [err |-> "none",
                   width |-> IF w = -1 THEN p.width ELSE w,
                   height |-> IF h = -1 THEN p.height ELSE h,
                   data_type |-> IF pt = -1 THEN p.data_type
                                 ELSE IF pt = 16 THEN 16 ELSE 8,
                   header_size |-> IF hs = -1 THEN p.header_size ELSE hs]
    ELSE [err |-> "none", width |-> w, height |-> h,
          data_type |-> IF pt = 16 THEN 16 ELSE 8, header_size |-> hs]

\* the parameters process_raw_file decodes with: the file's own preamble as
\* soon as one argument is -1, the arguments otherwise
resolve_parameters(bytes, w, h, pt, hs) ==
    IF w = -1 \/ h = -1 \/ pt = -1 \/ hs = -1
    THEN read_raw_parameters(bytes)
    ELSE [err |-> "none", width |-> w, height |-> h,
          data_type |-> IF pt = 16 THEN 16 ELSE 8, header_size |-> hs]

\* file.seek(header_size); np.fromfile(file, dtype=data_type)
read_payload(bytes, data_type, hs) == fromfile(bytes, hs, data_type, -1)

\* ndarray.reshape((h, w)): ValueError unless the size is h*w
reshape_ok(raw_data, h, w) == Len(raw_data) = h * w

reshape(raw_data, dtype, h, w) ==
    [dtype |-> dtype,
     rows |-> [r \in 1..h |-> [c \in 1..w |-> raw_data[(r - 1) * w + c]]]]

\* variant: a target directory is used as if it were a file
resolve_tiff_path_no_isdir(file_path, tpath, dirs) ==
    IF tpath = None THEN splitext(file_path)[1] \o TiffExt
    ELSE tpath

\* where process_raw_file writes the TIFF
resolve_tiff_path(file_path, tpath, dirs) ==
    IF tpath = None THEN splitext(file_path)[1] \o TiffExt
    ELSE IF tpath \in dirs
         THEN join(tpath, basename(splitext(file_path)[1] \o TiffExt))
    ELSE tpath

\* process_raw_file as a function of its arguments and the file system:
\* what it raised, what it decoded with, and what it saved, showed, printed
process_raw_file(file_path, bytes, w, h, pt, hs, save, tpath, dirs) ==
    LET p == resolve_parameters(bytes, w, h, pt, hs)
        base == [file |-> file_path, args |-> <<w, h, pt, hs>>,
                 used |-> <<>>, result |-> "IndexError", image |-> NoImage,
                 out |-> NoPath, showed |-> FALSE]
    IN  IF p.err # "none" THEN base
        ELSE
          LET used == <<p.width, p.height, p.data_type, p.header_size>>
              raw_data == read_payload(bytes, p.data_type, p.header_size)
          IN  IF ~reshape_ok(raw_data, p.height, p.width)
              THEN [base EXCEPT !.used = used, !.result = "ReshapeMismatch"]
              ELSE
                LET image_data ==
                        reshape(raw_data, p.data_type, p.height, p.width)
                IN  IF save
                    THEN [base EXCEPT !.used = used, !.result = "ok",
                              !.image = image_data,
                              !.out = resolve_tiff_path(file_path, tpath, dirs)]
                    ELSE [base EXCEPT !.used = used, !.result = "ok",
                              !.image = image_data, !.showed = TRUE]

(***************************************************************************)
(* display_image.                                                          *)
(***************************************************************************)
Pixels(image) ==
    {image.rows[r][c] : r \in 1..Len(image.rows), c \in 1..Len(image.rows[1])}

\* what a NaN becomes when cast to uint8 is not defined; the bytes a build
\* can produce
NaNCast == {0, 255}

\* variant: the cast rounds to the nearest byte
astype_uint8_nearest(num, den) == ((2 * num * 255 + den) \div (2 * den)) % 256

\* a float is kept as an exact fraction; (scaled * 255).astype(np.uint8)
\* drops the fractional part
astype_uint8(num, den) == ((num * 255) \div den) % 256

\* the possible results of display_image: whether 0/0 was computed, and
\* the bytes handed to imshow
display_image(image) ==
    LET h == Len(image.rows)
        w == Len(image.rows[1])
        min_val == Min(Pixels(image))
        max_val == Max(Pixels(image))
    IN  IF max_val - min_val = 0
        THEN {[nan |-> TRUE, display_data |-> d] :
                 d \in [1..h -> [1..w -> NaNCast]]}
        ELSE {[nan |-> FALSE,
               display_data |->
                   [r \in 1..h |-> [c \in 1..w |->
                       astype_uint8(image.rows[r][c] - min_val,
                                    max_val - min_val)]]]}

(***************************************************************************)
(* The file system and the inputs.                                         *)
(***************************************************************************)
Range(f) == {f[i] : i \in DOMAIN f}

\* the existing directories
Dirs ==
    {DirPath} \cup (IF outIsDir THEN {OutPath} ELSE {})
    \cup {join(DirPath, e.name) : e \in {x \in Range(listing) : x.isdir}}

isdir(p) == p \in Dirs

isfile(p) == \E e \in Range(listing) : ~e.isdir /\ join(DirPath, e.name) = p

FileAt(p) == (CHOOSE e \in Range(listing) : join(DirPath, e.name) = p).bytes

\* contents: a well-formed 2x2 8-bit image, a well-formed 16-bit image with
\* header padding, a constant image, a preamble that claims 2x1 over four
\* payload bytes, a pixel-type flag that is neither 8 nor 16, and a file
\* shorter than the preamble
Good8 == MkFile(2, 2, 8, 10, <<0, 1, 2, 1>>)
Good16 == MkFile(1, 2, 16, 12, <<300, 7>>)
Const8 == MkFile(2, 1, 8, 10, <<5, 5>>)
Mismatch8 == MkFile(2, 1, 8, 10, <<9, 8, 7, 6>>)
Flag12 == MkFile(1, 2, 12, 10, <<4, 6>>)
Short == <<2, 0, 2, 0>>

Contents == {Good8, Good16, Const8, Mismatch8, Flag12, Short}

Letters == <<"a", "b", "c", "e", "g", "h">>

File(name, bytes) == [name |-> name, isdir |-> FALSE, bytes |-> bytes]
Directory(name) == [name |-> name, isdir |-> TRUE, bytes |-> <<>>]

\* entries for the path cases: names that differ in the case of the
\* extension, a name that is only an extension, a file that is no .raw,
\* and a directory that has the name of a derived TIFF
PathEntries ==
    {File(n, b) : n \in {<<"a">> \o RawExt, <<"a", ".", "R", "A", "W">>,
                         <<"b">> \o RawExt, RawExt},
                  b \in {Good8, Good16, Mismatch8}}
    \cup {File(<<"n", ".", "t", "x", "t">>, Good8),
          Directory(<<"a">> \o TiffExt)}

DistinctNames(l) ==
    \A i, j \in DOMAIN l : l[i].name = l[j].name => i = j

Listings(entries) ==
    {l \in UNION {[1..n -> entries] : n \in 0..MaxFiles} : DistinctNames(l)}

\* the paths process_path is called with: the directory, its first entry
\* when that is a file, or a path that does not exist
PathsFor(l) ==
    {DirPath, NoSuchPath}
    \cup (IF l # <<>> /\ ~l[1].isdir THEN {join(DirPath, l[1].name)} ELSE {})

PixelValues == 0..MaxPixel \cup {255}

PreviewBuffers == UNION {[1..n -> PixelValues] : n \in 1..MaxPreviewLen}

Start ==
    /\ width = overrides[1]
    /\ height = overrides[2]
    /\ pixel_type = overrides[3]
    /\ header_size = overrides[4]
    /\ idx = 1
    /\ pc = "run"
    /\ raised = "none"
    /\ calls = <<>>
    /\ previews = <<>>
    /\ tiffs = <<>>
    /\ shown = <<>>
    /\ console = <<>>

\* decoding: every content under every combination of overrides and flags
InitDecode ==
    /\ listing \in {[i \in DOMAIN c |-> File(<<Letters[i]>> \o RawExt, c[i])] :
                       c \in UNION {[1..n -> Contents] : n \in 1..MaxFiles}}
    /\ path \in PathsFor(listing) \ {NoSuchPath}
    /\ save_tiff \in BOOLEAN
    /\ display_images \in BOOLEAN
    /\ tiff_path = None
    /\ outIsDir = FALSE
    /\ overrides \in {-1, 1, 2} \X {-1, 2} \X {-1, 8, 16} \X {-1, 10}

\* paths: every listing of names under every target
InitPaths ==
    /\ listing \in Listings(PathEntries)
    /\ path \in PathsFor(listing)
    /\ save_tiff \in BOOLEAN
    /\ display_images \in BOOLEAN
    /\ tiff_path \in {None, <<>>, OutPath, FileTarget}
    /\ outIsDir \in BOOLEAN
    /\ overrides = <<-1, -1, -1, -1>>

\* preview: one file per buffer of pixels, 8 and 16 bit
InitPreview ==
    /\ listing \in {<<File(<<"a">> \o RawExt, MkFile(Len(b), 1, f, 10, b))>> :
                       b \in PreviewBuffers, f \in {8, 16}}
    /\ path = DirPath
    /\ save_tiff = TRUE
    /\ display_images = TRUE
    /\ tiff_path = None
    /\ outIsDir = FALSE
    /\ overrides = <<-1, -1, -1, -1>>

Init == (InitDecode \/ InitPaths \/ InitPreview) /\ Start

(***************************************************************************)
(* process_path.                                                           *)
(***************************************************************************)
Crash(exception) ==
    /\ pc' = "crashed"
    /\ raised' = exception

\* the sinks of process_raw_file: Image.save and the line it prints, or
\* Image.show, or the line printed for the reshape error
SinkTiffs(r) ==
    IF r.out # NoPath
    THEN [q \in DOMAIN tiffs \cup {r.out} |->
             IF q = r.out THEN r.image ELSE tiffs[q]]
    ELSE tiffs

\* variant: the image is shown whether or not it was saved
SinkShown_always(r) ==
    IF r.result = "ok"
    THEN Append(shown, [file |-> r.file, via |-> "Image.show",
                        image |-> r.image, nan |-> FALSE,
                        display_data |-> r.image.rows])
    ELSE shown

SinkShown(r) ==
    IF r.showed
    THEN Append(shown, [file |-> r.file, via |-> "Image.show",
                        image |-> r.image, nan |-> FALSE,
                        display_data |-> r.image.rows])
    ELSE shown

SinkConsole(r) ==
    IF r.result = "ReshapeMismatch"
    THEN Append(console, [kind |-> "ReshapeMismatch", arg |-> r.file])
    ELSE IF r.out # NoPath
    THEN Append(console, [kind |-> "Saved", arg |-> r.out])
    ELSE console

\* the preview of process_path: the parameters are read again from the file
\* into width, height and header_size, and nothing catches what the read or
\* the reshape raises
Preview(file_path, bytes, r, next) ==
    LET p == read_raw_parameters(bytes)
        base == [file |-> file_path, used |-> <<>>, result |-> "IndexError",
                 image |-> NoImage]
    IN  IF p.err # "none"
        THEN /\ Crash(p.err)
             /\ previews' = Append(previews, base)
             /\ shown' = SinkShown(r)
             /\ UNCHANGED <<width, height, header_size>>
        ELSE
          LET used == <<p.width, p.height, p.data_type, p.header_size>>
              raw_data == read_payload(bytes, p.data_type, p.header_size)
          IN  /\ width' = p.width
              /\ height' = p.height
              /\ header_size' = p.header_size
              /\ IF ~reshape_ok(raw_data, p.height, p.width)
                 THEN /\ Crash("ValueError")
                      /\ previews' = Append(previews,
                             [base EXCEPT !.used = used,
                                          !.result = "ValueError"])
                      /\ shown' = SinkShown(r)
                 ELSE LET image == reshape(raw_data, p.data_type,
                                           p.height, p.width)
                      IN  \E d \in display_image(image) :
                            /\ pc' = next
                            /\ raised' = raised
                            /\ previews' = Append(previews,
                                   [base EXCEPT !.used = used,
                                                !.result = "ok",
                                                !.image = image])
                            /\ shown' = Append(SinkShown(r),
                                   [file |-> file_path, via |-> "imshow",
                                    image |-> image, nan |-> d.nan,
                                    display_data |-> d.display_data])

\* one file: process_raw_file, then the preview when display_images is set
ProcessFile(file_path, bytes, output_tiff_path, next) ==
    LET r == process_raw_file(file_path, bytes, width, height, pixel_type,
                              header_size, save_tiff, output_tiff_path, Dirs)
    IN  /\ calls' = Append(calls, r)
        /\ IF r.result = "IndexError"
           THEN /\ Crash("IndexError")
                /\ UNCHANGED <<width, height, header_size, previews, tiffs,
                               shown, console>>
           ELSE /\ tiffs' = SinkTiffs(r)
                /\ console' = SinkConsole(r)
                /\ IF display_images
                   THEN Preview(file_path, bytes, r, next)
                   ELSE /\ pc' = next
                        /\ shown' = SinkShown(r)
                        /\ UNCHANGED <<raised, width, height, header_size,
                                       previews>>

\* variant: the caller's target is ignored
derive_output_path_per_entry(p, filename, tpath) ==
    join(p, splitext(filename)[1] \o TiffExt)

\* the target the for loop hands to process_raw_file: the caller's when it
\* is set, the entry's name with the extension swapped otherwise
derive_output_path(p, filename, tpath) ==
    IF truthy(tpath) THEN tpath
    ELSE join(p, splitext(filename)[1] \o TiffExt)

\* an iteration of the for loop on an entry whose name ends in .raw
DirEntryRaw ==
    /\ pc = "run"
    /\ isdir(path)
    /\ idx <= Len(listing)
    /\ endswith(lower(listing[idx].name), RawExt)
    /\ LET filename == listing[idx].name
           file_path == join(path, filename)
           output_tiff_path == derive_output_path(path, filename, tiff_path)
       IN  ProcessFile(file_path, listing[idx].bytes, output_tiff_path, "run")
    /\ idx' = IF pc' = "crashed" THEN idx ELSE idx + 1
    /\ UNCHANGED <<path, save_tiff, display_images, tiff_path, overrides,
                   pixel_type, listing, outIsDir>>

\* an iteration on any other entry
DirEntrySkip ==
    /\ pc = "run"
    /\ isdir(path)
    /\ idx <= Len(listing)
    /\ ~endswith(lower(listing[idx].name), RawExt)
    /\ idx' = idx + 1
    /\ UNCHANGED <<path, save_tiff, display_images, tiff_path, overrides,
                   width, height, pixel_type, header_size, listing, outIsDir,
                   pc, raised, calls, previews, tiffs, shown, console>>

\* the for loop is exhausted
DirDone ==
    /\ pc = "run"
    /\ isdir(path)
    /\ idx > Len(listing)
    /\ pc' = "done"
    /\ UNCHANGED <<path, save_tiff, display_images, tiff_path, overrides,
                   width, height, pixel_type, header_size, listing, outIsDir,
                   idx, raised, calls, previews, tiffs, shown, console>>

\* path is a file
SingleFile ==
    /\ pc = "run"
    /\ ~isdir(path)
    /\ isfile(path)
    /\ LET output_tiff_path ==
               IF truthy(tiff_path) THEN tiff_path
               ELSE splitext(path)[1] \o TiffExt
       IN  ProcessFile(path, FileAt(path), output_tiff_path, "done")
    /\ UNCHANGED <<path, save_tiff, display_images, tiff_path, overrides,
                   pixel_type, listing, outIsDir, idx>>

\* path is neither a directory nor a file
InvalidPath ==
    /\ pc = "run"
    /\ ~isdir(path)
    /\ ~isfile(path)
    /\ pc' = "done"
    /\ console' = Append(console, [kind |-> "InvalidPath", arg |-> path])
    /\ UNCHANGED <<path, save_tiff, display_images, tiff_path, overrides,
                   width, height, pixel_type, header_size, listing, outIsDir,
                   idx, raised, calls, previews, tiffs, shown>>

Next == DirEntryRaw \/ DirEntrySkip \/ DirDone \/ SingleFile \/ InvalidPath

Spec == Init /\ [][Next]_vars

(***************************************************************************)
(* Vocabulary of the properties.                                           *)
(***************************************************************************)
\* the k-th 16-bit word of a file, as written in it
Word(bytes, k) == bytes[2 * k - 1] + 256 * bytes[2 * k]

HasPreamble(bytes) == Len(bytes) >= 10

\* (width, height, pixelTypeFlag, headerSize) as the preamble encodes them
PreambleWords(bytes) ==
    <<Word(bytes, 1), Word(bytes, 2), Word(bytes, 3), Word(bytes, 5)>>

\* the decode parameters a file describes for itself
OwnParameters(bytes) ==
    <<Word(bytes, 1), Word(bytes, 2),
      IF Word(bytes, 3) = 16 THEN 16 ELSE 8, Word(bytes, 5)>>

\* the number of elements behind the header, for decode parameters u
PayloadCount(bytes, u) ==
    LET size == u[3] \div 8
        rest == Len(bytes) - u[4]
    IN  IF rest <= 0 THEN 0 ELSE rest \div size

Mismatched(bytes, u) == PayloadCount(bytes, u) # u[1] * u[2]

HasShape(image, h, w) ==
    /\ Len(image.rows) = h
    /\ \A r \in 1..h : Len(image.rows[r]) = w

Reported(kind, file_path) ==
    \E i \in DOMAIN console :
        console[i].kind = kind /\ console[i].arg = file_path

Written(file_path) ==
    \E i \in DOMAIN calls : calls[i].file = file_path /\ calls[i].out # NoPath

Shown(file_path) == \E i \in DOMAIN shown : shown[i].file = file_path

AllSupplied(a) == \A k \in 1..4 : a[k] # -1

Explicit(a) == <<a[1], a[2], IF a[3] = 16 THEN 16 ELSE 8, a[4]>>

ReplaceExt(p) == splitext(p)[1] \o TiffExt

RoundHalfEven(n, d) ==
    LET q == n \div d
        twice == 2 * (n % d)
    IN  IF twice > d \/ (twice = d /\ q % 2 = 1) THEN q + 1 ELSE q

Floor(n, d) == n \div d

IsPreview(s) == s.via = "imshow"

LastOk ==
    Max({i \in DOMAIN calls : calls[i].result = "ok"})

(***************************************************************************)
(* C1: in a directory batch a per-file failure (short file, mismatch in    *)
(* the save or in the preview step) is reported for that file and never    *)
(* ends the loop.                                                          *)
(***************************************************************************)
C1_BatchIsolation ==
    isdir(path) =>
        /\ pc # "crashed"
        /\ \A i \in DOMAIN calls :
               calls[i].result # "ok" =>
                   Reported("ReshapeMismatch", calls[i].file)

(***************************************************************************)
(* C2: when the payload behind the header does not have width*height       *)
(* elements, the decode (in process_raw_file and in the preview) ends in   *)
(* the reported ReshapeMismatch, nothing is saved or shown for that file,  *)
(* and no buffer of another shape than (height, width) is produced.        *)
(***************************************************************************)
C2_MismatchDetection ==
    /\ \A i \in DOMAIN calls :
          LET c == calls[i] IN
          c.used # <<>> =>
              IF Mismatched(FileAt(c.file), c.used)
              THEN /\ c.result = "ReshapeMismatch"
                   /\ Reported("ReshapeMismatch", c.file)
                   /\ ~Written(c.file)
                   /\ ~Shown(c.file)
              ELSE HasShape(c.image, c.used[2], c.used[1])
    /\ \A i \in DOMAIN previews :
          LET v == previews[i] IN
          v.used # <<>> =>
              IF Mismatched(FileAt(v.file), v.used)
              THEN /\ v.result = "ReshapeMismatch"
                   /\ Reported("ReshapeMismatch", v.file)
                   /\ ~Written(v.file)
                   /\ ~Shown(v.file)
              ELSE HasShape(v.image, v.used[2], v.used[1])

(***************************************************************************)
(* C3: in a directory batch every file is decoded either with the caller's *)
(* overrides (all four supplied) or with its own preamble, never with      *)
(* values of a file processed before it.                                   *)
(***************************************************************************)
C3_NoCarryOver ==
    isdir(path) =>
        \A i \in DOMAIN calls :
            LET c == calls[i] IN
            c.used # <<>> =>
                \/ AllSupplied(overrides) /\ c.used = Explicit(overrides)
                \/ /\ HasPreamble(FileAt(c.file))
                   /\ c.used = OwnParameters(FileAt(c.file))

(***************************************************************************)
(* C4: for a file with a preamble, process_raw_file with four -1 decodes   *)
(* the same buffer as process_raw_file with the preamble's four values     *)
(* passed explicitly.                                                      *)
(***************************************************************************)
AutoDecode(file_path, bytes) ==
    process_raw_file(file_path, bytes, -1, -1, -1, -1, FALSE, None, Dirs)

ExplicitDecode(file_path, bytes) ==
    LET a == PreambleWords(bytes)
    IN  process_raw_file(file_path, bytes, a[1], a[2], a[3], a[4], FALSE,
                         None, Dirs)

SameBuffer(r1, r2) == r1.result = r2.result /\ r1.image = r2.image

C4_AutoDetectEquivalence ==
    /\ \A e \in Range(listing) :
          (~e.isdir /\ HasPreamble(e.bytes)) =>
              SameBuffer(AutoDecode(e.name, e.bytes),
                         ExplicitDecode(e.name, e.bytes))
    /\ \A i \in DOMAIN calls :
          LET c == calls[i]
              bytes == FileAt(c.file)
          IN  (/\ HasPreamble(bytes)
               /\ c.args \in {<<-1, -1, -1, -1>>, PreambleWords(bytes)}) =>
                  /\ SameBuffer(c, AutoDecode(c.file, bytes))
                  /\ SameBuffer(c, ExplicitDecode(c.file, bytes))

C4_Witness ==
    \E i \in DOMAIN calls :
        /\ HasPreamble(FileAt(calls[i].file))
        /\ calls[i].args = PreambleWords(FileAt(calls[i].file))
        /\ calls[i].result = "ok"

(***************************************************************************)
(* C5: the TIFF goes to the input path with the extension replaced by      *)
(* .tiff when no target is given, into the target under the input's base   *)
(* name with .tiff when the target is an existing directory, and to the    *)
(* target unchanged otherwise; for one file and for every directory entry. *)
(***************************************************************************)
InDirectory(d, file_path) == join(d, basename(ReplaceExt(file_path)))

PreviewMaps(s, rounding(_, _)) ==
    LET m == Min(Pixels(s.image))
        M == Max(Pixels(s.image))
    IN  \A r \in DOMAIN s.image.rows : \A c \in DOMAIN s.image.rows[r] :
            /\ s.display_data[r][c] = rounding(255 * (s.image.rows[r][c] - m),
                                               M - m)
            /\ s.display_data[r][c] \in 0..255

Distinct(s) == Min(Pixels(s.image)) # Max(Pixels(s.image))

C6_PreviewRound ==
    \A i \in DOMAIN shown :
        (IsPreview(shown[i]) /\ Distinct(shown[i])) =>
            PreviewMaps(shown[i], RoundHalfEven)

\* C6 as amended: the byte is 255*(v-m)/(M-m) with the fraction dropped
C6_PreviewFloor ==
    \A i \in DOMAIN shown :
        (IsPreview(shown[i]) /\ Distinct(shown[i])) =>
            PreviewMaps(shown[i], Floor)

C6_Witness ==
    \E i \in DOMAIN shown :
        /\ IsPreview(shown[i])
        /\ Distinct(shown[i])
        /\ ~PreviewMaps(shown[i], RoundHalfEven)
        /\ shown[i].image.dtype = 16

(***************************************************************************)
(* C7: for a constant buffer the preview divides nothing by zero and       *)
(* renders one defined constant.                                           *)
(***************************************************************************)
C7_ConstantPreview ==
    \A i \in DOMAIN shown :
        LET s == shown[i] IN
        (IsPreview(s) /\ ~Distinct(s)) =>
            /\ ~s.nan
            /\ \A r \in DOMAIN s.display_data :
                   \A c \in DOMAIN s.display_data[r] :
                       s.display_data[r][c] = s.display_data[1][1]

(***************************************************************************)
(* C8: whatever save_tiff and display_images are, a file is written or     *)
(* shown, never both in one invocation.                                    *)
(***************************************************************************)
C8_MutuallyExclusive ==
    \A i \in DOMAIN calls : ~(Written(calls[i].file) /\ Shown(calls[i].file))

\* C8 as amended: process_raw_file writes (save_tiff) or shows (otherwise),
\* never both; a file is written and shown in one invocation only by the
\* preview, that is only when save_tiff and display_images are both set
C8_SinkExclusive ==
    /\ \A i \in DOMAIN calls :
          LET c == calls[i] IN
          /\ ~(c.out # NoPath /\ c.showed)
          /\ c.result = "ok" => ((c.out # NoPath) <=> save_tiff)
          /\ c.result = "ok" => (c.showed <=> ~save_tiff)
          /\ (Written(c.file) /\ Shown(c.file)) =>
                 (save_tiff /\ display_images)
    /\ \A i \in DOMAIN shown :
          /\ IsPreview(shown[i]) => display_images
          /\ ~IsPreview(shown[i]) => ~save_tiff

C8_Witness ==
    \E i \in DOMAIN calls :
        /\ Written(calls[i].file)
        /\ Shown(calls[i].file)
        /\ pc = "done"

(***************************************************************************)
(* C9: process_raw_file decodes with the file's preamble, all four values, *)
(* as soon as one of its four arguments is -1, and with its arguments only *)
(* when none is -1.                                                        *)
(***************************************************************************)
C9_AllOrNothing ==
    \A i \in DOMAIN calls :
        LET c == calls[i]
            bytes == FileAt(c.file)
        IN  IF AllSupplied(c.args)
            THEN c.used = Explicit(c.args)
            ELSE IF HasPreamble(bytes)
                 THEN c.used = OwnParameters(bytes)
                 ELSE c.used = <<>> /\ c.result = "IndexError"

C9_Witness ==
    \E i \in DOMAIN calls :
        /\ calls[i].result = "ok"
        /\ ~AllSupplied(calls[i].args)
        /\ \E k \in 1..4 : calls[i].args[k] # -1
                           /\ calls[i].args[k] # calls[i].used[k]

(***************************************************************************)
(* C10: in a directory batch that saves to a target that is no existing    *)
(* directory, every decoded entry is written to that one path, which holds *)
(* the image of the last one; with no target, entries whose names differ   *)
(* only in the case of the extension are written to one path.              *)
(***************************************************************************)
ExtensionCaseOnly(f, g) ==
    /\ f # g
    /\ splitext(f)[1] = splitext(g)[1]
    /\ lower(splitext(f)[2]) = lower(splitext(g)[2])

C10_SharedTarget ==
    (isdir(path) /\ save_tiff) =>
        /\ (truthy(tiff_path) /\ tiff_path \notin Dirs) =>
               /\ \A i \in DOMAIN calls :
                      calls[i].result = "ok" => calls[i].out = tiff_path
               /\ DOMAIN tiffs \subseteq {tiff_path}
               /\ (\E i \in DOMAIN calls : calls[i].result = "ok") =>
                      /\ tiff_path \in DOMAIN tiffs
                      /\ tiffs[tiff_path] = calls[LastOk].image
        /\ ~truthy(tiff_path) =>
               \A i, j \in DOMAIN calls :
                   (/\ calls[i].result = "ok"
                    /\ calls[j].result = "ok"
                    /\ ExtensionCaseOnly(calls[i].file, calls[j].file)) =>
                       calls[i].out = calls[j].out

C10_Witness ==
    /\ isdir(path)
    /\ save_tiff
    /\ pc = "done"
    /\ tiff_path = FileTarget
    /\ \E i, j \in DOMAIN calls :
          /\ i < j
          /\ calls[i].result = "ok"
          /\ calls[j].result = "ok"
          /\ calls[i].image # calls[j].image
          /\ ExtensionCaseOnly(calls[i].file, calls[j].file)
          /\ tiffs[tiff_path] = calls[j].image

====
